---- MODULE Spec2Model ----
(***************************************************************************)
(* aurora-unicycler: the step-sequence resolution engine.                  *)
(*                                                                         *)
(* A protocol object holds a method (a list of steps) and a sample.  The   *)
(* model covers construction-time validation of loops and tags, the tag    *)
(* resolver, the interval nesting check, the loop tree builder, the loop   *)
(* unroller and the five exporters that call them on a deep copy.          *)
(*                                                                         *)
(* Positions are 1-based here (TLA+ sequences); the Python source indexes  *)
(* lists from 0, so a Python index i is position i + 1.                    *)
(***************************************************************************)
EXTENDS Integers, Sequences, FiniteSets, TLC

(***************************************************************************)
(* Bounds of the model.                                                    *)
(***************************************************************************)
\* Longest method a caller writes.
MaxLen == 4
\* Most direct calls of tag_to_indices a caller makes on its protocol object.
MaxCalls == 2
\* Longest list of steps a caller passes to the constructor.
MaxRaw == 4

TagNames == {"a", "b"}
CycleCounts == {1, 2}

(***************************************************************************)
(* Steps.  Every step is a record with the same fields; a field a variant  *)
(* does not have keeps its default.  loop_to is int | str in the source:   *)
(* isstr tells which, i is the integer, s the tag name.                    *)
(***************************************************************************)
NoTarget == [isstr |-> FALSE, i |-> 0, s |-> ""]
IntTarget(n) == [isstr |-> FALSE, i |-> n, s |-> ""]
StrTarget(t) == [isstr |-> TRUE, i |-> 0, s |-> t]

OpenCircuitVoltage ==
  [step |-> "open_circuit_voltage", loop_to |-> NoTarget, cycle_count |-> 0,
   tag |-> "", rate_C |-> 0, until_rate_C |-> 0]

ConstantCurrent(rate) ==
  [step |-> "constant_current", loop_to |-> NoTarget, cycle_count |-> 0,
   tag |-> "", rate_C |-> rate, until_rate_C |-> 0]

ConstantVoltage(until_rate) ==
  [step |-> "constant_voltage", loop_to |-> NoTarget, cycle_count |-> 0,
   tag |-> "", rate_C |-> 0, until_rate_C |-> until_rate]

ImpedanceSpectroscopy ==
  [step |-> "impedance_spectroscopy", loop_to |-> NoTarget, cycle_count |-> 0,
   tag |-> "", rate_C |-> 0, until_rate_C |-> 0]

\* a Step subclass of the caller's own, put in a protocol with model_construct
UnknownStep ==
  [step |-> "wait, what", loop_to |-> NoTarget, cycle_count |-> 0,
   tag |-> "", rate_C |-> 0, until_rate_C |-> 0]

Loop(target, n) ==
  [step |-> "loop", loop_to |-> target, cycle_count |-> n, tag |-> "", rate_C |-> 0,
   until_rate_C |-> 0]

Tag(t) ==
  [step |-> "tag", loop_to |-> NoTarget, cycle_count |-> 0, tag |-> t, rate_C |-> 0,
   until_rate_C |-> 0]

IsLoop(st) == st.step = "loop"
IsTag(st) == st.step = "tag"

\* Python's None, for the optional numbers (capacity_mAh, skip_above)
None == -1
\* truth value of an optional number: None and 0 are both false
Truthy(x) == x # None /\ x # 0

\* SampleParams: name defaults to "$NAME", capacity_mAh to None.
SampleParams(name, cap) == [name |-> name, capacity_mAh |-> cap]

\* A protocol object: the fields of BaseProtocol the engine reads or writes.
Protocol(sample, method) == [sample |-> sample, method |-> method]

\* The empty slot of the object store (no protocol has an empty method).
NoObject == Protocol(SampleParams("", None), << >>)

(***************************************************************************)
(* Generic helpers.                                                        *)
(***************************************************************************)
Positions(method) == 1..Len(method)
LoopPositions(method) == {p \in Positions(method) : IsLoop(method[p])}
TagPositions(method) == {p \in Positions(method) : IsTag(method[p])}

Min(S) == CHOOSE x \in S : \A y \in S : x <= y

\* dict assignment d[k] = v on a function
Put(d, k, v) == [x \in DOMAIN d \cup {k} |-> IF x = k THEN v ELSE d[x]]
EmptyDict == [x \in {} |-> 0]

(***************************************************************************)
(* BaseProtocol._validate_loops_and_tags: "" when the method is accepted,  *)
(* else the error raised.  i and tag_i of the source are 0-based, so       *)
(* i = p - 1 for a loop at position p and tag_i = q - 1 for a tag at q.    *)
(***************************************************************************)
\* tags_rev: the index of the tag step carrying the name (the last one wins)
tags_rev(method, name) ==
  LET S == {q \in TagPositions(method) : method[q].tag = name}
  IN  CHOOSE q \in S : \A r \in S : r <= q

DuplicateTags(method) ==
  \E p, q \in TagPositions(method) : p # q /\ method[p].tag = method[q].tag

\* LoopTagError without the test i <= tag_i
LoopTagErrorNoBackwardTest(method, p) ==
  LET name == method[p].loop_to.s
  IN  IF ~ \E q \in TagPositions(method) : method[q].tag = name
        THEN "Tag is missing."
      ELSE IF p - 1 = (tags_rev(method, name) - 1) + 1
        THEN "Loop cannot start immediately after its tag."
      ELSE ""

\* LoopTagError without the test i == tag_i + 1
LoopTagErrorNoAdjacentTest(method, p) ==
  LET name == method[p].loop_to.s
  IN  IF ~ \E q \in TagPositions(method) : method[q].tag = name
        THEN "Tag is missing."
      ELSE IF p - 1 <= tags_rev(method, name) - 1
        THEN "Loops must go backwards."
      ELSE ""

\* the error of the string-target loop at position p, "" when it passes
LoopTagError(method, p) ==
  LET name == method[p].loop_to.s
  IN  IF ~ \E q \in TagPositions(method) : method[q].tag = name
        THEN "Tag is missing."
      ELSE IF p - 1 <= tags_rev(method, name) - 1
        THEN "Loops must go backwards."
      ELSE IF p - 1 = (tags_rev(method, name) - 1) + 1
        THEN "Loop cannot start immediately after its tag."
      ELSE ""

\* LoopIdxError with the test loop_start > i + 1: forward loops only
LoopIdxErrorForwardOnly(method, p) ==
  IF method[p].loop_to.i > p THEN "cannot be on or after the loop index" ELSE ""

\* LoopIdxError with both sides of the test 0-based: loop_to - 1 >= i
LoopIdxErrorSameBase(method, p) ==
  IF method[p].loop_to.i - 1 >= p - 1 THEN "cannot be on or after the loop index" ELSE ""

\* the error of the integer-target loop at position p, "" when it passes:
\* loop_start is the 1-based loop_to, i the 0-based index p - 1
LoopIdxError(method, p) ==
  IF method[p].loop_to.i >= p - 1 THEN "cannot be on or after the loop index" ELSE ""

_validate_loops_and_tags(method) ==
  LET idxLoops == {p \in LoopPositions(method) : ~method[p].loop_to.isstr}
      tagLoops == {p \in LoopPositions(method) : method[p].loop_to.isstr}
      badIdx   == {p \in idxLoops : LoopIdxError(method, p) # ""}
      badTag   == {p \in tagLoops : LoopTagError(method, p) # ""}
  IN  IF DuplicateTags(method) THEN "Duplicate tags"
      ELSE IF badIdx # {} THEN LoopIdxError(method, Min(badIdx))
      ELSE IF badTag # {} THEN LoopTagError(method, Min(badTag))
      ELSE ""

\* duplicate_tags with only the name of the first repeated Tag step
duplicate_tags_first_only(method) ==
  LET S == {q \in TagPositions(method) :
             \E r \in TagPositions(method) : r # q /\ method[r].tag = method[q].tag}
  IN  IF S = {} THEN {} ELSE {method[Min(S)].tag}

\* duplicate_tags: the names that more than one Tag step carries
duplicate_tags(method) ==
  {method[p].tag : p \in {q \in TagPositions(method) :
                            \E r \in TagPositions(method) : r # q /\ method[r].tag = method[q].tag}}

RECURSIVE Joined(_)
\* ", ".join(duplicate_tags): duplicate_tags is a set, so the names come in
\* any order
Joined(S) ==
  IF S = {} THEN {""}
  ELSE UNION {{"'" \o x \o "'" \o (IF S = {x} THEN "" ELSE ", ") \o rest :
                  rest \in Joined(S \ {x})} : x \in S}

\* the messages the validator can raise on the method: {""} when it accepts
ValidationMessages(method) ==
  IF _validate_loops_and_tags(method) = "Duplicate tags"
    THEN {"Duplicate tags: " \o names : names \in Joined(duplicate_tags(method))}
    ELSE {_validate_loops_and_tags(method)}

(***************************************************************************)
(* Construction of a single step: the field validators of Loop and Tag.    *)
(***************************************************************************)
\* str.strip() on the names in use
Strip(str) == IF str \in {"", " ", "  "} THEN "" ELSE str

\* Loop._validate_loop_to, then cycle_count: int = Field(gt=0)
LoopError(st) ==
  IF ~st.loop_to.isstr /\ st.loop_to.i <= 0
    THEN "Start step must be positive integer or a string"
  ELSE IF st.loop_to.isstr /\ Strip(st.loop_to.s) = "" THEN "Start step cannot be empty"
  ELSE IF st.cycle_count <= 0 THEN "Input should be greater than 0"
  ELSE ""

\* Tag has the field tag: str and no validator
TagError(st) == ""

\* the error of constructing the step, "" when it is constructed
StepError(st) ==
  IF IsLoop(st) THEN LoopError(st) ELSE IF IsTag(st) THEN TagError(st) ELSE ""

(***************************************************************************)
(* tag_to_indices: the scan over protocol.method, then the removal of the  *)
(* tag steps.  The scan rewrites step.loop_to in place, so when it raises  *)
(* the method keeps the rewrites done so far and all its steps.            *)
(***************************************************************************)
\* list[idx] of Python, idx 0-based: a negative idx counts from the end of
\* the list, and an idx outside -len..len-1 raises IndexError
PyInRange(list, idx) == -Len(list) <= idx /\ idx < Len(list)
PyItem(list, idx) == list[IF idx >= 0 THEN idx + 1 ELSE Len(list) + idx + 1]

ScanStart(method) ==
  [indices |-> [k \in Positions(method) |-> 0], tags |-> EmptyDict,
   methods_to_remove |-> {}, j |-> 0, method |-> method, err |-> ""]

\* ScanStep reading indices[step.loop_to] for indices[step.loop_to - 1]
ScanStepOffByOne(sc, k) ==
  LET st == sc.method[k]
      j1 == sc.j + 1
      s1 == [sc EXCEPT !.j = j1, !.indices[k] = j1]
  IN  IF IsTag(st)
        THEN [sc EXCEPT !.indices[k] = sc.j + 1,
                        !.tags = Put(sc.tags, st.tag, sc.j + 1),
                        !.methods_to_remove = @ \cup {k}]
      ELSE IF ~IsLoop(st) THEN s1
      ELSE IF st.loop_to.isstr
        THEN IF st.loop_to.s \in DOMAIN s1.tags
               THEN [s1 EXCEPT !.method[k].loop_to = IntTarget(s1.tags[st.loop_to.s])]
               ELSE [s1 EXCEPT !.err = "does not have a corresponding tag step."]
      ELSE IF PyInRange(s1.indices, st.loop_to.i)
        THEN [s1 EXCEPT !.method[k].loop_to = IntTarget(PyItem(s1.indices, st.loop_to.i))]
        ELSE [s1 EXCEPT !.err = "IndexError"]

\* ScanStep recording tags[step.tag] = j for j + 1
ScanStepTagAtPrev(sc, k) ==
  LET st == sc.method[k]
      j1 == sc.j + 1
      s1 == [sc EXCEPT !.j = j1, !.indices[k] = j1]
  IN  IF IsTag(st)
        THEN [sc EXCEPT !.indices[k] = sc.j + 1,
                        !.tags = Put(sc.tags, st.tag, sc.j),
                        !.methods_to_remove = @ \cup {k}]
      ELSE IF ~IsLoop(st) THEN s1
      ELSE IF st.loop_to.isstr
        THEN IF st.loop_to.s \in DOMAIN s1.tags
               THEN [s1 EXCEPT !.method[k].loop_to = IntTarget(s1.tags[st.loop_to.s])]
               ELSE [s1 EXCEPT !.err = "does not have a corresponding tag step."]
      ELSE IF PyInRange(s1.indices, st.loop_to.i - 1)
        THEN [s1 EXCEPT !.method[k].loop_to = IntTarget(PyItem(s1.indices, st.loop_to.i - 1))]
        ELSE [s1 EXCEPT !.err = "IndexError"]

\* ScanStep recording indices[i] = j for j + 1 on a tag
ScanStepTagIndexAtPrev(sc, k) ==
  LET st == sc.method[k]
      j1 == sc.j + 1
      s1 == [sc EXCEPT !.j = j1, !.indices[k] = j1]
  IN  IF IsTag(st)
        THEN [sc EXCEPT !.indices[k] = sc.j,
                        !.tags = Put(sc.tags, st.tag, sc.j + 1),
                        !.methods_to_remove = @ \cup {k}]
      ELSE IF ~IsLoop(st) THEN s1
      ELSE IF st.loop_to.isstr
        THEN IF st.loop_to.s \in DOMAIN s1.tags
               THEN [s1 EXCEPT !.method[k].loop_to = IntTarget(s1.tags[st.loop_to.s])]
               ELSE [s1 EXCEPT !.err = "does not have a corresponding tag step."]
      ELSE IF PyInRange(s1.indices, st.loop_to.i - 1)
        THEN [s1 EXCEPT !.method[k].loop_to = IntTarget(PyItem(s1.indices, st.loop_to.i - 1))]
        ELSE [s1 EXCEPT !.err = "IndexError"]

\* one iteration of the for loop, on the step at position k (index i = k - 1)
ScanStep(sc, k) ==
  LET st == sc.method[k]
      j1 == sc.j + 1
      s1 == [sc EXCEPT !.j = j1, !.indices[k] = j1]
  IN  IF IsTag(st)
        THEN [sc EXCEPT !.indices[k] = sc.j + 1,
                        !.tags = Put(sc.tags, st.tag, sc.j + 1),
                        !.methods_to_remove = @ \cup {k}]
      ELSE IF ~IsLoop(st) THEN s1
      ELSE IF st.loop_to.isstr
        THEN IF st.loop_to.s \in DOMAIN s1.tags
               THEN [s1 EXCEPT !.method[k].loop_to = IntTarget(s1.tags[st.loop_to.s])]
               ELSE [s1 EXCEPT !.err = "does not have a corresponding tag step."]
      ELSE IF PyInRange(s1.indices, st.loop_to.i - 1)
        THEN [s1 EXCEPT !.method[k].loop_to = IntTarget(PyItem(s1.indices, st.loop_to.i - 1))]
        ELSE [s1 EXCEPT !.err = "IndexError"]

RECURSIVE Scan(_, _)
Scan(sc, k) ==
  IF k > Len(sc.method) \/ sc.err # "" THEN sc
  ELSE Scan(ScanStep(sc, k), k + 1)

\* [step for i, step in enumerate(method) if i not in methods_to_remove]
RECURSIVE RemoveSteps(_, _, _)
RemoveSteps(method, remove, k) ==
  IF k > Len(method) THEN << >>
  ELSE (IF k \in remove THEN << >> ELSE <<method[k]>>) \o RemoveSteps(method, remove, k + 1)

\* tag_to_indices without the final removal of the tag steps
tag_to_indices_keeps_tags(method) ==
  LET sc == Scan(ScanStart(method), 1)
  IN  [method |-> sc.method, err |-> sc.err]

\* the method left in the protocol object and the error raised ("" for none)
tag_to_indices(method) ==
  LET sc == Scan(ScanStart(method), 1)
  IN  IF sc.err # "" THEN [method |-> sc.method, err |-> sc.err]
      ELSE [method |-> RemoveSteps(sc.method, sc.methods_to_remove, 1), err |-> ""]

(***************************************************************************)
(* check_for_intersecting_loops: the list of (loop_to, position) pairs,    *)
(* sorted as Python sorts tuples, and the pairwise scan with its break.    *)
(***************************************************************************)
LoopIntervals(method) ==
  {<<method[p].loop_to.i, p>> : p \in LoopPositions(method)}

TupleLess(a, b) == a[1] < b[1] \/ (a[1] = b[1] /\ a[2] < b[2])

RECURSIVE SortTuples(_)
SortTuples(S) ==
  IF S = {} THEN << >>
  ELSE LET m == CHOOSE x \in S : \A y \in S \ {x} : TupleLess(x, y)
       IN  <<m>> \o SortTuples(S \ {m})

\* Intersect comparing the starts with <= and >=
IntersectSameStart(a, b) ==
  (a[1] <= b[1] /\ a[2] < b[2]) \/ (a[1] >= b[1] /\ a[2] > b[2])

\* the condition of the raise, on the pair (loops[i], loops[j])

Intersect(a, b) ==
  (a[1] < b[1] /\ a[2] < b[2]) \/ (a[1] > b[1] /\ a[2] > b[2])

\* Reached without the break: the inner loop runs over every later j
ReachedNoBreak(loops, i, j) == j > i

\* the inner loop reaches index j for i: no earlier j made it break
Reached(loops, i, j) == \A k \in (i + 1)..j : ~(loops[k][1] > loops[i][2])

check_for_intersecting_loops(method) ==
  LET loops == SortTuples(LoopIntervals(method))
  IN  IF \E p \in LoopPositions(method) : method[p].loop_to.isstr
        THEN "invalid literal for int()"
      ELSE IF \E i \in 1..Len(loops) : \E j \in (i + 1)..Len(loops) :
                Reached(loops, i, j) /\ Intersect(loops[i], loops[j])
        THEN "Protocol has intersecting loops."
      ELSE ""

(***************************************************************************)
(* Inputs: the methods a caller can write within the bounds.               *)
(***************************************************************************)
LoopTargets(maxlen) == {IntTarget(n) : n \in 1..maxlen} \cup {StrTarget(t) : t \in TagNames}

LoopSteps(maxlen) == {Loop(tg, n) : tg \in LoopTargets(maxlen), n \in CycleCounts}

CoreSteps(maxlen) ==
  {OpenCircuitVoltage} \cup {Tag(t) : t \in TagNames} \cup LoopSteps(maxlen)

\* the methods of k steps
Methods(steps, k) == [1..k -> steps]

\* the steps a caller tries to construct: blank tag names, a zero or blank
\* loop target and a zero cycle_count among them
RawTagNames == TagNames \cup {"", " "}
RawCandidates(maxlen) ==
  {OpenCircuitVoltage} \cup {Tag(t) : t \in RawTagNames}
  \cup {Loop(IntTarget(n), 1) : n \in 0..maxlen}
  \cup {Loop(StrTarget(t), c) : t \in TagNames \cup {""}, c \in {0, 1}}

\* those that were constructed
RawSteps(maxlen) == {st \in RawCandidates(maxlen) : StepError(st) = ""}

\* steps with and without C-rates, integer loops
SampleSteps ==
  {OpenCircuitVoltage, ConstantCurrent(1), ConstantVoltage(1)}
  \cup {Loop(IntTarget(n), 1) : n \in 1..2}

\* steps that some exporter has no case for
ForeignSteps ==
  {OpenCircuitVoltage, ImpedanceSpectroscopy, UnknownStep}
  \cup {Loop(IntTarget(n), 1) : n \in 1..2}

\* long expansions: one that takes exactly Ceiling iterations, one that takes
\* one more, and the five nested loops of test_pybamm_bomb_protection
LongCounts == {4999}
\* passes of the loop already made when the model takes a long expansion up
LongDone == {4990}
LongMethods ==
  UNION {{<<Tag("A"), OpenCircuitVoltage, Loop(StrTarget("A"), n)>>,
          <<Tag("A"), OpenCircuitVoltage, Loop(StrTarget("A"), n), OpenCircuitVoltage>>}
         : n \in LongCounts}
  \cup {<<Tag("A"), Tag("B"), Tag("C"), Tag("D"), Tag("E"), OpenCircuitVoltage,
          Loop(StrTarget("E"), 100), Loop(StrTarget("D"), 100), Loop(StrTarget("C"), 100),
          Loop(StrTarget("B"), 100), Loop(StrTarget("A"), 100)>>}

\* the samples: name unset ("$NAME" is the default), blank or given; capacity
\* unset (None), zero or given
Samples ==
  {SampleParams("$NAME", None), SampleParams("$NAME", 1), SampleParams("", 0),
   SampleParams("cell", None), SampleParams("cell", 0), SampleParams("cell", 1)}

\* steps of a protocol built with model_construct, which runs no validator:
\* loops forwards, onto themselves, and to a tag name that no Tag step has
UncheckedSteps ==
  {OpenCircuitVoltage, Tag("a")}
  \cup {Loop(IntTarget(n), 1) : n \in 1..2}
  \cup {Loop(StrTarget(t), 1) : t \in TagNames}

\* the sequences _explode_loops can be given: no Tag, every loop target an
\* integer from 1 to the loop's own position, nested or not
UnrollMethods(k) ==
  {method \in Methods({OpenCircuitVoltage}
                        \cup {Loop(IntTarget(n), c) : n \in 1..k, c \in CycleCounts}, k) :
     \A p \in LoopPositions(method) : method[p].loop_to.i <= p}

\* lengths of the methods of the two families above
SampleLens == 1..4
ForeignLens == 1..4

\* what a caller passes as sample_name / capacity_mAh ("" and None: not given)
NameArgs == {"", "cell2"}
CapArgs == {None, 2}

(***************************************************************************)
(* Exporter pre-flight.                                                    *)
(***************************************************************************)
\* model_copy handing back the object itself
model_copy_alias(ref) == ref

\* protocol = protocol.model_copy(deep=True): the object that the exporter's
\* local name `protocol` is bound to from then on
model_copy(ref) == "work"

\* if sample_name: protocol.sample.name = ...; if capacity_mAh: ... = capacity_mAh
ApplyOverrides(p, sample_name, capacity_mAh) ==
  [p EXCEPT !.sample.name = IF sample_name # "" THEN sample_name ELSE @,
            !.sample.capacity_mAh = IF Truthy(capacity_mAh) THEN capacity_mAh ELSE @]

SampleNameError(p) ==
  IF p.sample.name = "" \/ p.sample.name = "$NAME"
    THEN "a sample name must be provided in this function."
    ELSE ""

\* validate_capacity_c_rates looking at rate_C only
validate_capacity_rate_C_only(p) ==
  IF ~Truthy(p.sample.capacity_mAh)
     /\ \E k \in Positions(p.method) : Truthy(p.method[k].rate_C)
    THEN "Sample capacity must be set if using C-rate steps."
    ELSE ""

validate_capacity_c_rates(p) ==
  IF ~Truthy(p.sample.capacity_mAh)
     /\ \E k \in Positions(p.method) :
          Truthy(p.method[k].rate_C) \/ Truthy(p.method[k].until_rate_C)
    THEN "Sample capacity must be set if using C-rate steps."
    ELSE ""

\* the copy, then the overrides written to the object the local name is bound to
CopyAndOverride(h, sample_name, capacity_mAh) ==
  LET ref == model_copy("caller")
      h1  == [h EXCEPT ![ref] = h["caller"]]
  IN  [h1 EXCEPT ![ref] = ApplyOverrides(h1[ref], sample_name, capacity_mAh)]

\* ResolveIn writing the resolved sequence to a copy of the object
ResolveInOnCopy(h, ref) ==
  LET res == tag_to_indices(h[ref].method)
  IN  [heap |-> [h EXCEPT !["work"] = [h[ref] EXCEPT !.method = res.method]],
       err |-> res.err]

\* _utils.tag_to_indices(protocol) on the object `ref` of the store h
ResolveIn(h, ref) ==
  LET res == tag_to_indices(h[ref].method)
  IN  [heap |-> [h EXCEPT ![ref].method = res.method], err |-> res.err]

\* ResolveAndCheck without the call of check_for_intersecting_loops
ResolveWithoutCheck(h) == ResolveIn(h, model_copy("caller"))

\* tag_to_indices, then check_for_intersecting_loops, on the exporter's object
ResolveAndCheck(h) ==
  LET ref == model_copy("caller")
      r   == ResolveIn(h, ref)
  IN  IF r.err # "" THEN r
      ELSE [heap |-> r.heap, err |-> check_for_intersecting_loops(r.heap[ref].method)]

\* the step types each exporter's match statement has a case for
Rendered(name) ==
  IF name = "to_biologic_mps"
    THEN {"open_circuit_voltage", "constant_current", "constant_voltage",
          "impedance_spectroscopy", "loop"}
  ELSE IF name = "to_battinfo_jsonld"
    THEN {"open_circuit_voltage", "constant_current", "constant_voltage"}
  ELSE {"open_circuit_voltage", "constant_current", "constant_voltage", "loop"}

\* the exception of `case _`: its class, then its message
Unsupported(name, st) ==
  IF name = "to_biologic_mps"
    THEN "NotImplementedError: to_biologic_mps() does not support step type: " \o st.step
  ELSE IF name = "to_battinfo_jsonld"
    THEN "NotImplementedError: Technique " \o st.step \o " not supported by to_battinfo_jsonld()"
  ELSE "TypeError: " \o name \o " does not support step type: " \o st.step

\* the loop over protocol.method: the first step without a case raises
RenderError(name, method) ==
  LET bad == {k \in Positions(method) : method[k].step \notin Rendered(name)}
  IN  IF bad = {} THEN "" ELSE Unsupported(name, method[Min(bad)])

\* Outcome with the file written before anything else is done
OutcomeFileFirst(h, e, o, save_path) ==
  [heap |-> h, err |-> e, out |-> IF e = "" THEN o ELSE << >>, written |-> save_path]

\* an exporter is over: the store it leaves, the error it raised, the value it
\* returned, and whether it wrote the file (`if save_path:` is its last step)
Outcome(h, e, o, save_path) ==
  [heap |-> h, err |-> e, out |-> IF e = "" THEN o ELSE << >>,
   written |-> save_path /\ e = ""]

\* to_neware_xml, to_biologic_mps, to_tomato_mpg2
\* IndexExporter with resolution and nesting check ahead of the capacity check
IndexExporterLoopsFirst(name, h, save_path, sample_name, capacity_mAh) ==
  LET ref == model_copy("caller")
      h1  == CopyAndOverride(h, sample_name, capacity_mAh)
      r   == ResolveAndCheck(h1)
  IN  IF SampleNameError(h1[ref]) # ""
        THEN Outcome(h1, SampleNameError(h1[ref]), << >>, save_path)
      ELSE IF r.err # "" THEN Outcome(r.heap, r.err, << >>, save_path)
      ELSE IF validate_capacity_c_rates(h1[ref]) # ""
        THEN Outcome(r.heap, validate_capacity_c_rates(h1[ref]), << >>, save_path)
      ELSE Outcome(r.heap, RenderError(name, r.heap[ref].method), r.heap[ref].method,
                   save_path)

IndexExporter(name, h, save_path, sample_name, capacity_mAh) ==
  LET ref == model_copy("caller")
      h1  == CopyAndOverride(h, sample_name, capacity_mAh)
      r   == ResolveAndCheck(h1)
  IN  IF SampleNameError(h1[ref]) # ""
        THEN Outcome(h1, SampleNameError(h1[ref]), << >>, save_path)
      ELSE IF validate_capacity_c_rates(h1[ref]) # ""
        THEN Outcome(h1, validate_capacity_c_rates(h1[ref]), << >>, save_path)
      ELSE IF r.err # "" THEN Outcome(r.heap, r.err, << >>, save_path)
      ELSE Outcome(r.heap, RenderError(name, r.heap[ref].method), r.heap[ref].method,
                   save_path)

\* the exporter returns or raises: its local object is dropped
Release(h) == [h EXCEPT !["work"] = NoObject]

(***************************************************************************)
(* battinfo._group_iterative_tasks: the Loop Tree.  A task is a leaf (the  *)
(* int of the source) or a repeat (the tuple (cycle_count, tasks)).  Step  *)
(* numbers are the 0-based numbers of the source.                          *)
(***************************************************************************)
Leaf(n) == [kind |-> "leaf", step |-> n, count |-> 0, body |-> << >>]
Repeat(n, tasks) == [kind |-> "repeat", step |-> 0, count |-> n, body |-> tasks]
\* next(...) found no element: StopIteration
NotFound == [kind |-> "StopIteration", step |-> 0, count |-> 0, body |-> << >>]

Reverse(seq) == [k \in 1..Len(seq) |-> seq[Len(seq) + 1 - k]]

RECURSIVE _group_iterative_tasks(_, _)
RECURSIVE GroupScan(_, _, _, _, _)
\* the for loop from position k (index i = k - 1) down to the first
GroupScan(step_numbers, method, k, tasks, skip_above) ==
  IF k = 0 THEN tasks
  ELSE IF Truthy(skip_above) /\ step_numbers[k] >= skip_above
    THEN GroupScan(step_numbers, method, k - 1, tasks, skip_above)
  ELSE IF IsLoop(method[k])
    THEN LET start_step == method[k].loop_to.i - 1
             found == {j \in 1..Len(step_numbers) : step_numbers[j] = start_step}
         IN  IF found = {}
               THEN Append(tasks, NotFound)
               ELSE GroupScan(step_numbers, method, k - 1,
                      Append(tasks,
                        Repeat(method[k].cycle_count,
                          _group_iterative_tasks(SubSeq(step_numbers, Min(found), k - 1),
                                                 SubSeq(method, Min(found), k - 1)))),
                      start_step)
  ELSE GroupScan(step_numbers, method, k - 1, Append(tasks, Leaf(step_numbers[k])),
                 skip_above)

_group_iterative_tasks(step_numbers, method) ==
  Reverse(GroupScan(step_numbers, method, Len(method), << >>, None))

\* list(range(len(protocol.method)))
StepNumbers(method) == [k \in 1..Len(method) |-> k - 1]

RECURSIVE TreeRaises(_)
\* next() raised somewhere in the tree
TreeRaises(tasks) ==
  \E k \in 1..Len(tasks) :
    tasks[k].kind = "StopIteration" \/ (tasks[k].kind = "repeat" /\ TreeRaises(tasks[k].body))

\* _battinfoify_technique: the error of rendering one step, "" for none
_battinfoify_technique(st) ==
  IF st.step \in Rendered("to_battinfo_jsonld") THEN ""
  ELSE Unsupported("to_battinfo_jsonld", st)

RECURSIVE _recursive_battinfo_build(_, _)
\* the first error of the build, "" for none: order[0] is read first (IndexError
\* on an empty list), then its technique or its body, then order[1:]
_recursive_battinfo_build(order, methods) ==
  IF order = << >> THEN "IndexError"
  ELSE LET first == IF order[1].kind = "leaf"
                      THEN _battinfoify_technique(methods[order[1].step + 1])
                      ELSE _recursive_battinfo_build(order[1].body, methods)
       IN  IF first # "" THEN first
           ELSE IF Len(order) > 1 THEN _recursive_battinfo_build(Tail(order), methods)
           ELSE ""

\* to_battinfo_jsonld
BattinfoExporter(h, save_path, capacity_mAh) ==
  LET ref  == model_copy("caller")
      h1   == CopyAndOverride(h, "", capacity_mAh)
      r    == ResolveAndCheck(h1)
      tree == _group_iterative_tasks(StepNumbers(r.heap[ref].method), r.heap[ref].method)
  IN  IF r.err # "" THEN Outcome(r.heap, r.err, << >>, save_path)
      ELSE IF TreeRaises(tree) THEN Outcome(r.heap, "StopIteration", << >>, save_path)
      ELSE Outcome(r.heap, _recursive_battinfo_build(tree, r.heap[ref].method), tree,
                   save_path)

(***************************************************************************)
(* pybamm: the loops dict of to_pybamm_experiment and _explode_loops.      *)
(* Keys, goto and the program counter are 0-based as in the source.        *)
(***************************************************************************)
\* more than this many iterations of the while loop raise RuntimeError
Ceiling == 10000

\* OverCeiling raising on the iteration that reaches the ceiling
OverCeilingAtLeast(n) == n >= Ceiling

\* if total_itr > 10000: raise
OverCeiling(n) == n > Ceiling

\* loops[i] = {"goto": step.loop_to - 1, "n": step.cycle_count, "n_done": 0}
LoopsDict(method) ==
  [i \in {p - 1 : p \in LoopPositions(method)} |->
     [goto |-> method[i + 1].loop_to.i - 1, n |-> method[i + 1].cycle_count, n_done |-> 0]]

\* GoesBack with the test n_done <= n
GoesBackOnceMore(d, i) == i \in DOMAIN d /\ d[i].n_done <= d[i].n

\* the test of the while body: go back from the loop at i
GoesBack(d, i) == i \in DOMAIN d /\ d[i].n_done < d[i].n

\* AfterGoBack leaving the counters of the loops passed over as they are
AfterGoBackNoReset(d, i) ==
  [j \in DOMAIN d |-> IF j = i THEN [d[j] EXCEPT !.n_done = d[j].n_done + 1] ELSE d[j]]

\* AfterGoBack resetting the loops after i as well as those passed over
AfterGoBackResetsLater(d, i) ==
  [j \in DOMAIN d |->
     IF j = i THEN [d[j] EXCEPT !.n_done = d[j].n_done + 1]
     ELSE IF j >= d[i].goto THEN [d[j] EXCEPT !.n_done = 0]
     ELSE d[j]]

\* the dict after going back from the loop at i
AfterGoBack(d, i) ==
  [j \in DOMAIN d |->
     IF j = i THEN [d[j] EXCEPT !.n_done = d[j].n_done + 1]
     ELSE IF j < i /\ j >= d[i].goto THEN [d[j] EXCEPT !.n_done = 0]
     ELSE d[j]]

\* [i for i in exploded_indices if i not in loops]
WithoutLoops(seq, d) == SelectSeq(seq, LAMBDA x : x \notin DOMAIN d)

(***************************************************************************)
(* State.                                                                  *)
(***************************************************************************)
VARIABLES
  heap,              \* object store: "caller" is the caller's protocol object,
                     \* "work" the deep copy an exporter runs on
  pc,                \* "new" before the validator has run, "rejected" after it
                     \* raised; "idle" between two calls, "explode" inside
                     \* _explode_loops, "returned" when a call has returned or
                     \* raised and the caller looks at the outcome
  op,                \* the operation called last (or running)
  args,              \* the optional arguments it was called with
  err,               \* the error it raised, "" for none
  out,               \* the value it returned
  written,           \* it wrote its output to the file at save_path
  loops,             \* _explode_loops: the loops dict
  i,                 \* _explode_loops: the program counter
  total_itr,         \* _explode_loops: iterations so far
  exploded_indices,  \* _explode_loops: the raw trace
  calls              \* direct calls of tag_to_indices made so far

vars == <<heap, pc, op, args, err, out, written, loops, i, total_itr, exploded_indices, calls>>

unroller == <<loops, i, total_itr, exploded_indices>>

Exporters ==
  {"to_neware_xml", "to_biologic_mps", "to_tomato_mpg2", "to_pybamm_experiment",
   "to_battinfo_jsonld"}

\* the object the running exporter works on
Work == heap[model_copy("caller")]

(***************************************************************************)
(* Init: a protocol object that construction accepted.                     *)
(***************************************************************************)
\* the optional arguments of the exporters, none of them given
NoArgs == [save_path |-> FALSE, sample_name |-> "", capacity_mAh |-> None]

\* no call is running
Quiet ==
  /\ args = NoArgs
  /\ err = ""
  /\ out = << >>
  /\ written = FALSE
  /\ loops = EmptyDict
  /\ i = 0
  /\ total_itr = 0
  /\ exploded_indices = << >>
  /\ calls = 0

Constructed(sample, method) ==
  /\ _validate_loops_and_tags(method) = ""
  /\ heap = [caller |-> Protocol(sample, method), work |-> NoObject]
  /\ pc = "idle"
  /\ op = ""
  /\ Quiet

\* loops and tags of every shape, the default sample
InitCore ==
  \E k \in 1..MaxLen : \E method \in Methods(CoreSteps(MaxLen), k) :
    Constructed(SampleParams("$NAME", None), method)

\* C-rate steps and integer loops, every sample
InitSample ==
  \E k \in SampleLens : \E method \in Methods(SampleSteps, k) :
    \E sample \in Samples : Constructed(sample, method)

\* steps that some exporter does not render, a complete sample
InitForeign ==
  \E k \in ForeignLens : \E method \in Methods(ForeignSteps, k) :
    Constructed(SampleParams("cell", 1), method)

\* the long expansions
InitLong ==
  \E method \in LongMethods : Constructed(SampleParams("cell", 1), method)

\* to_pybamm_experiment part-way through a long expansion, the program
\* counter back at the first step: `done` full passes of the inner loop (two
\* iterations each) of the one-loop methods, and 49 full passes of the second
\* of the five nested loops (203 iterations each)
Running(method, d, trace) ==
  /\ heap = [caller |-> Protocol(SampleParams("cell", 1), method),
             work |-> Protocol(SampleParams("cell", 1), tag_to_indices(method).method)]
  /\ pc = "explode"
  /\ op = "to_pybamm_experiment"
  /\ args = NoArgs
  /\ err = ""
  /\ out = << >>
  /\ written = FALSE
  /\ loops = d
  /\ i = 0
  /\ total_itr = Len(trace)
  /\ exploded_indices = trace
  /\ calls = 0

InitRunning ==
  \E method \in LongMethods :
    LET d == LoopsDict(tag_to_indices(method).method)
    IN  IF Cardinality(DOMAIN d) = 1
          THEN \E done \in LongDone :
                 Running(method, [d EXCEPT ![1].n_done = done],
                         [k \in 1..(2 * done) |-> (k - 1) % 2])
          ELSE Running(method, [d EXCEPT ![2].n_done = 49],
                       [k \in 1..(49 * 203) |->
                          IF (k - 1) % 203 = 202 THEN 2 ELSE ((k - 1) % 203) % 2])

Init == InitCore \/ InitSample \/ InitForeign \/ InitLong \/ InitRunning

\* what a caller passes to the constructor: steps it has constructed
InitRaw ==
  \E k \in 1..MaxRaw : \E method \in Methods(RawSteps(MaxRaw), k) :
    /\ heap = [caller |-> Protocol(SampleParams("$NAME", None), method), work |-> NoObject]
    /\ pc = "new"
    /\ op = ""
    /\ Quiet

\* a protocol object made by Protocol.model_construct(...): no validator ran
InitUnchecked ==
  \E k \in 1..MaxLen : \E method \in Methods(UncheckedSteps, k) :
    /\ heap = [caller |-> Protocol(SampleParams("cell", 1), method), work |-> NoObject]
    /\ pc = "idle"
    /\ op = ""
    /\ Quiet

(***************************************************************************)
(* The exporters.                                                          *)
(***************************************************************************)
Returns(name, given, r) ==
  /\ heap' = Release(r.heap)
  /\ pc' = "returned"
  /\ op' = name
  /\ args' = given
  /\ err' = r.err
  /\ out' = r.out
  /\ written' = r.written
  /\ UNCHANGED <<unroller, calls>>

\* the calls a caller makes of to_neware_xml, to_biologic_mps, to_tomato_mpg2
IndexArgs ==
  [save_path : BOOLEAN, sample_name : NameArgs, capacity_mAh : CapArgs]

\* ... and of to_battinfo_jsonld, which has no sample_name
BattinfoArgs == {a \in IndexArgs : a.sample_name = ""}

IndexExport(name) ==
  /\ pc = "idle"
  /\ \E a \in IndexArgs :
       Returns(name, a, IndexExporter(name, heap, a.save_path, a.sample_name, a.capacity_mAh))

ToNewareXml == IndexExport("to_neware_xml")

ToBiologicMps == IndexExport("to_biologic_mps")

ToTomatoMpg2 == IndexExport("to_tomato_mpg2")

ToBattinfoJsonld ==
  /\ pc = "idle"
  /\ \E a \in BattinfoArgs :
       Returns("to_battinfo_jsonld", a, BattinfoExporter(heap, a.save_path, a.capacity_mAh))

\* to_pybamm_experiment up to the call of _explode_loops: the copy, the
\* resolution and the check, then the loop over the steps
PybammPreflight(h) ==
  LET r == ResolveAndCheck(CopyAndOverride(h, "", None))
  IN  IF r.err # "" THEN r
      ELSE [heap |-> r.heap,
            err |-> RenderError("to_pybamm_experiment", r.heap[model_copy("caller")].method)]

ToPybammExperiment ==
  /\ pc = "idle"
  /\ LET r == PybammPreflight(heap)
     IN  /\ op' = "to_pybamm_experiment"
         /\ args' = NoArgs
         /\ err' = r.err
         /\ out' = << >>
         /\ written' = FALSE
         /\ IF r.err # ""
              THEN /\ heap' = Release(r.heap)
                   /\ pc' = "returned"
                   /\ UNCHANGED unroller
              ELSE /\ heap' = r.heap
                   /\ pc' = "explode"
                   /\ loops' = LoopsDict(r.heap[model_copy("caller")].method)
                   /\ i' = 0
                   /\ total_itr' = 0
                   /\ exploded_indices' = << >>
  /\ UNCHANGED calls

\* the locals of _explode_loops are dropped
DropLocals ==
  /\ loops' = EmptyDict
  /\ i' = 0
  /\ total_itr' = 0
  /\ exploded_indices' = << >>

\* one iteration of `while i < end_idx`
ExplodeStep ==
  /\ pc = "explode"
  /\ i < Len(Work.method)
  /\ IF OverCeiling(total_itr + 1)
       THEN /\ pc' = "returned"
            /\ err' = "likely a loop definition error."
            /\ heap' = Release(heap)
            /\ DropLocals
       ELSE /\ exploded_indices' = Append(exploded_indices, i)
            /\ loops' = IF GoesBack(loops, i) THEN AfterGoBack(loops, i) ELSE loops
            /\ i' = IF GoesBack(loops, i) THEN loops[i].goto ELSE i + 1
            /\ total_itr' = total_itr + 1
            /\ UNCHANGED <<pc, err, heap>>
  /\ UNCHANGED <<op, args, out, written, calls>>

\* the while loop is over: the trace without the loops is returned
ExplodeReturn ==
  /\ pc = "explode"
  /\ ~(i < Len(Work.method))
  /\ out' = WithoutLoops(exploded_indices, loops)
  /\ pc' = "returned"
  /\ heap' = Release(heap)
  /\ DropLocals
  /\ UNCHANGED <<op, args, err, written, calls>>

(***************************************************************************)
(* Direct calls on the caller's own object, as the tests make them.        *)
(***************************************************************************)
TagToIndices ==
  /\ pc = "idle"
  /\ calls < MaxCalls
  /\ LET r == ResolveIn(heap, "caller")
     IN  /\ heap' = r.heap
         /\ err' = r.err
  /\ op' = "tag_to_indices"
  /\ args' = NoArgs
  /\ out' = << >>
  /\ written' = FALSE
  /\ calls' = calls + 1
  /\ pc' = "returned"
  /\ UNCHANGED unroller

CheckForIntersectingLoops ==
  /\ pc = "idle"
  /\ op' = "check_for_intersecting_loops"
  /\ args' = NoArgs
  /\ err' = check_for_intersecting_loops(heap["caller"].method)
  /\ out' = << >>
  /\ written' = FALSE
  /\ pc' = "returned"
  /\ UNCHANGED <<heap, unroller, calls>>

\* the caller has looked at the outcome of the call and goes on
Continue ==
  /\ pc = "returned"
  /\ pc' = "idle"
  /\ op' = ""
  /\ args' = NoArgs
  /\ err' = ""
  /\ out' = << >>
  /\ written' = FALSE
  /\ UNCHANGED <<heap, unroller, calls>>

Next ==
  \/ ToNewareXml
  \/ ToBiologicMps
  \/ ToTomatoMpg2
  \/ ToBattinfoJsonld
  \/ ToPybammExperiment
  \/ ExplodeStep
  \/ ExplodeReturn
  \/ TagToIndices
  \/ CheckForIntersectingLoops
  \/ Continue

Spec == Init /\ [][Next]_vars

(***************************************************************************)
(* Construction: BaseProtocol(...) runs _validate_loops_and_tags on the    *)
(* new object.  When it raises, the caller gets no object: in the state    *)
(* "rejected" the slot "caller" holds the arguments of the failed call.    *)
(***************************************************************************)
Construct ==
  /\ pc = "new"
  /\ op' = "construct"
  /\ \E msg \in ValidationMessages(heap["caller"].method) :
       /\ err' = msg
       /\ pc' = IF msg = "" THEN "returned" ELSE "rejected"
  /\ UNCHANGED <<heap, args, out, written, unroller, calls>>

NextConstruct == Construct \/ Next

SpecConstruct == InitRaw /\ [][NextConstruct]_vars

(***************************************************************************)
(* _explode_loops by itself, its while loop without the test of total_itr  *)
(* against the ceiling: the body of the loop is run as long as i < end_idx *)
(* (the interpreter always takes the next step), then the list is          *)
(* returned.                                                               *)
(***************************************************************************)
InitUnroll ==
  \E k \in 1..MaxLen : \E method \in UnrollMethods(k) :
    /\ heap = [caller |-> Protocol(SampleParams("cell", 1), method),
               work |-> Protocol(SampleParams("cell", 1), method)]
    /\ pc = "explode"
    /\ op = "_explode_loops"
    /\ args = NoArgs
    /\ err = ""
    /\ out = << >>
    /\ written = FALSE
    /\ loops = LoopsDict(method)
    /\ i = 0
    /\ total_itr = 0
    /\ exploded_indices = << >>
    /\ calls = 0

\* one iteration of `while i < end_idx`, lines 57 to 65
UnrollStep ==
  /\ pc = "explode"
  /\ i < Len(Work.method)
  /\ exploded_indices' = Append(exploded_indices, i)
  /\ loops' = IF GoesBack(loops, i) THEN AfterGoBack(loops, i) ELSE loops
  /\ i' = IF GoesBack(loops, i) THEN loops[i].goto ELSE i + 1
  /\ total_itr' = total_itr + 1
  /\ UNCHANGED <<heap, pc, op, args, err, out, written, calls>>

NextUnroll == UnrollStep \/ ExplodeReturn

SpecUnroll == InitUnroll /\ [][NextUnroll]_vars /\ WF_vars(NextUnroll)

\* the same operations on objects that no validator has seen
SpecUnchecked == InitUnchecked /\ [][Next]_vars

(***************************************************************************)
(* Vocabulary of the properties.                                           *)
(***************************************************************************)
CallerMethod == heap["caller"].method

\* no Tag step and every loop target an integer
ResolvedForm(method) ==
  /\ TagPositions(method) = {}
  /\ \A p \in LoopPositions(method) : ~method[p].loop_to.isstr

\* the 1-based position, after the tag steps are dropped, of the non-Tag step
\* at position p: the number of non-Tag steps up to p
NewPos(method, p) == Cardinality({q \in 1..p : ~IsTag(method[q])})

\* the first non-Tag step after position p
FirstStepAfter(method, p) == Min({q \in (p + 1)..Len(method) : ~IsTag(method[q])})

\* the position of the Tag step named name
TagPosition(method, name) == CHOOSE q \in TagPositions(method) : method[q].tag = name

\* the positions of the non-Tag steps, in order
Executable(method) ==
  SelectSeq([k \in Positions(method) |-> k], LAMBDA k : ~IsTag(method[k]))

\* the same step, its loop target left aside
SameButTarget(a, b) == [a EXCEPT !.loop_to = NoTarget] = [b EXCEPT !.loop_to = NoTarget]

\* a step in which tag_to_indices ran on the caller's object ...
ResolvedDirect == op' = "tag_to_indices" /\ err' = ""
\* ... and one in which an exporter ran it on its copy and kept the copy
ResolvedInExport == pc = "idle" /\ pc' = "explode"

Count(seq, x) == Cardinality({n \in 1..Len(seq) : seq[n] = x})

\* the loop at position q encloses position k: k lies in [target, q]
Encloses(method, q, k) == method[q].loop_to.i <= k /\ k <= q

RECURSIVE ProductOfCounts(_, _)
ProductOfCounts(method, Q) ==
  IF Q = {} THEN 1
  ELSE LET q == Min(Q) IN method[q].cycle_count * ProductOfCounts(method, Q \ {q})

\* cycle_count of all loops enclosing position k, multiplied
Repetitions(method, k) ==
  ProductOfCounts(method, {q \in LoopPositions(method) : Encloses(method, q, k)})

RECURSIVE Leaves(_)
\* the leaves of a Loop Tree in order, each Repeat body entered once
Leaves(tasks) ==
  IF tasks = << >> THEN << >>
  ELSE (IF Head(tasks).kind = "repeat" THEN Leaves(Head(tasks).body) ELSE <<Head(tasks).step>>)
       \o Leaves(Tail(tasks))

\* the 0-based indices, in the resolved sequence, of the non-loop steps of a
\* method that may still hold tags
NonLoopIndices(method) ==
  LET ex   == Executable(method)
      keep == SelectSeq(ex, LAMBDA k : ~IsLoop(method[k]))
  IN  [n \in 1..Len(keep) |-> NewPos(method, keep[n]) - 1]

PartialOverlap(a, b) == a[1] < b[1] /\ b[1] <= a[2] /\ a[2] < b[2]
Disjoint(a, b) == a[2] < b[1] \/ b[2] < a[1]
Contains(a, b) == a[1] <= b[1] /\ b[2] <= a[2]

(***************************************************************************)
(* C1  Every exporter leaves the protocol object it is called on equal to  *)
(* what it was before the call, with or without overrides: in every step   *)
(* of an exporter the caller's object is unchanged.                        *)
(***************************************************************************)
C1_ExportersLeaveCaller ==
  [][op' \in Exporters => heap'["caller"] = heap["caller"]]_vars

\* an export that needed the sample_name override has returned, and the
\* caller's object still has its default name, its Tag and its symbolic loop
C1_Witness ==
  /\ op = "to_neware_xml" /\ pc = "returned" /\ err = "" /\ out # << >>
  /\ heap["caller"].sample.name = "$NAME"
  /\ TagPositions(CallerMethod) # {}
  /\ \E p \in LoopPositions(CallerMethod) : CallerMethod[p].loop_to.isstr

(***************************************************************************)
(* C2  As claimed: after tag_to_indices is called on a protocol object,    *)
(* that object is unchanged.                                               *)
(***************************************************************************)
C2_ResolverLeavesArgument ==
  [][op' = "tag_to_indices" => heap'["caller"] = heap["caller"]]_vars

(***************************************************************************)
(* C2  As amended: tag_to_indices works in place.  After a call that did   *)
(* not raise, the object passed in holds the resolved sequence itself (no  *)
(* Tag step, integer loop targets); nothing is returned and there is no    *)
(* separate resolved object.                                               *)
(***************************************************************************)
C2_ResolverWorksInPlace ==
  (op = "tag_to_indices" /\ err = "") =>
    /\ ResolvedForm(CallerMethod)
    /\ out = << >>
    /\ heap["work"] = NoObject

\* the caller's object after the call is one that construction would reject:
\* it is the resolver that wrote it
C2_Witness ==
  /\ op = "tag_to_indices" /\ err = ""
  /\ _validate_loops_and_tags(CallerMethod) # ""
  /\ LoopPositions(CallerMethod) # {}

(***************************************************************************)
(* C3  As claimed: when the unroller's while loop has ended, every         *)
(* non-loop step occurs in the trace as many times as the product of the   *)
(* cycle_count of the loops whose interval encloses it.                    *)
(***************************************************************************)
C3_TraceRepeatsProduct ==
  (pc = "explode" /\ ~(i < Len(Work.method))) =>
    \A k \in Positions(Work.method) \ LoopPositions(Work.method) :
      Count(exploded_indices, k - 1) = Repetitions(Work.method, k)

(***************************************************************************)
(* C4  As claimed: the leaves of the Loop Tree that to_battinfo_jsonld     *)
(* builds, listed in order, are the indices of the non-loop steps of the   *)
(* resolved sequence in document order, each once.                         *)
(***************************************************************************)
C4_LeavesAreTheSteps ==
  (op = "to_battinfo_jsonld" /\ err = "") => Leaves(out) = NonLoopIndices(CallerMethod)

(***************************************************************************)
(* C5  On a resolved sequence check_for_intersecting_loops raises the      *)
(* intersecting-loops error exactly when two loop intervals partially      *)
(* overlap, and returns normally exactly when every two are disjoint or    *)
(* one contains the other.                                                 *)
(***************************************************************************)
C5_RaisesOnPartialOverlap ==
  (op = "check_for_intersecting_loops" /\ ResolvedForm(CallerMethod)) =>
    LET I == LoopIntervals(CallerMethod)
    IN  /\ (err = "Protocol has intersecting loops.")
             <=> (\E a, b \in I : PartialOverlap(a, b))
        /\ (err = "")
             <=> (\A a, b \in I : Disjoint(a, b) \/ Contains(a, b) \/ Contains(b, a))

\* the check has returned normally on a resolved sequence that has two
\* disjoint loops and a loop properly nested in another with a later target
C5_Witness ==
  /\ op = "check_for_intersecting_loops" /\ pc = "returned"
  /\ err = ""
  /\ ResolvedForm(CallerMethod)
  /\ \A p \in LoopPositions(CallerMethod) :
       1 <= CallerMethod[p].loop_to.i /\ CallerMethod[p].loop_to.i <= p
  /\ \E a, b \in LoopIntervals(CallerMethod) : Disjoint(a, b)
  /\ \E a, b \in LoopIntervals(CallerMethod) : a[1] < b[1] /\ b[2] < a[2]

(***************************************************************************)
(* C6  As claimed: after tag resolution of an accepted protocol every      *)
(* loop target is an integer t with 1 <= t < p, p the loop's position.     *)
(***************************************************************************)
C6_TargetBeforeLoop ==
  (op = "tag_to_indices" /\ err = "") =>
    \A p \in LoopPositions(CallerMethod) :
      /\ ~CallerMethod[p].loop_to.isstr
      /\ 1 <= CallerMethod[p].loop_to.i
      /\ CallerMethod[p].loop_to.i < p

(***************************************************************************)
(* C7  Tag resolution is idempotent: run on a sequence in resolved form    *)
(* (directly, or by an exporter on its copy) it raises nothing and leaves  *)
(* the method list and every loop target as they were.                     *)
(***************************************************************************)
C7_Idempotent ==
  [][ResolvedForm(CallerMethod) =>
       /\ op' = "tag_to_indices" => (err' = "" /\ heap'["caller"].method = CallerMethod)
       /\ ResolvedInExport => heap'["work"].method = CallerMethod]_vars

\* the second direct call on the same object has returned
C7_Witness ==
  /\ op = "tag_to_indices" /\ err = "" /\ calls = 2
  /\ LoopPositions(CallerMethod) # {}

(***************************************************************************)
(* C8  The resolved sequence holds no Tag step and is exactly the non-Tag  *)
(* steps of the input in their order (its length is the input's less the   *)
(* number of tags); tags no loop refers to are removed too.                *)
(***************************************************************************)
NonTagStepsInOrder(old, new) ==
  /\ TagPositions(new) = {}
  /\ Len(new) = Len(old) - Cardinality(TagPositions(old))
  /\ \A k \in Positions(new) : SameButTarget(new[k], old[Executable(old)[k]])

C8_TagsRemoved ==
  [][/\ ResolvedDirect => NonTagStepsInOrder(CallerMethod, heap'["caller"].method)
     /\ ResolvedInExport => NonTagStepsInOrder(CallerMethod, heap'["work"].method)]_vars

\* an exporter holds the resolved copy of a method with a tag no loop names
C8_Witness ==
  /\ pc = "explode"
  /\ \E q \in TagPositions(CallerMethod) :
       \A p \in LoopPositions(CallerMethod) : CallerMethod[p].loop_to.s # CallerMethod[q].tag
  /\ LoopPositions(CallerMethod) # {}
  /\ TagPositions(Work.method) = {}

(***************************************************************************)
(* C9  A loop naming tag T resolves to the new position of the first       *)
(* non-Tag step after T, which is 1 + the number of non-Tag steps before   *)
(* T, also when further Tag steps directly follow T.                       *)
(***************************************************************************)
SymbolicTargetsResolved(old, new) ==
  \A p \in LoopPositions(old) :
    old[p].loop_to.isstr =>
      LET T == TagPosition(old, old[p].loop_to.s)
      IN  /\ new[NewPos(old, p)].loop_to = IntTarget(NewPos(old, FirstStepAfter(old, T)))
          /\ new[NewPos(old, p)].loop_to.i = 1 + Cardinality({q \in 1..T : ~IsTag(old[q])})

C9_TagTargetIsNextStep ==
  [][/\ ResolvedDirect => SymbolicTargetsResolved(CallerMethod, heap'["caller"].method)
     /\ ResolvedInExport => SymbolicTargetsResolved(CallerMethod, heap'["work"].method)]_vars

\* an exporter holds the resolved copy of a method in which a loop names a tag
\* that is directly followed by another tag
C9_Witness ==
  /\ pc = "explode"
  /\ \E p \in LoopPositions(CallerMethod) :
       /\ CallerMethod[p].loop_to.isstr
       /\ IsTag(CallerMethod[TagPosition(CallerMethod, CallerMethod[p].loop_to.s) + 1])

(***************************************************************************)
(* C10  A numeric loop_to is a 1-based position of the original sequence,  *)
(* tags counted; it is rewritten to the new position of the step that      *)
(* stood there or, when a Tag stood there, of the next non-Tag step.  On a *)
(* sequence without tags it is left unchanged.                             *)
(***************************************************************************)
NumericTargetsResolved(old, new) ==
  \A p \in LoopPositions(old) :
    ~old[p].loop_to.isstr =>
      LET t == old[p].loop_to.i
      IN  /\ new[NewPos(old, p)].loop_to =
               IntTarget(IF IsTag(old[t]) THEN NewPos(old, FirstStepAfter(old, t))
                                          ELSE NewPos(old, t))
          /\ TagPositions(old) = {} => new[NewPos(old, p)].loop_to = old[p].loop_to

C10_NumericTargetRewritten ==
  [][/\ ResolvedDirect => NumericTargetsResolved(CallerMethod, heap'["caller"].method)
     /\ ResolvedInExport => NumericTargetsResolved(CallerMethod, heap'["work"].method)]_vars

\* an exporter holds the resolved copy of a method in which a numeric loop
\* points at the position of a Tag
C10_Witness ==
  /\ pc = "explode"
  /\ \E p \in LoopPositions(CallerMethod) :
       /\ ~CallerMethod[p].loop_to.isstr
       /\ IsTag(CallerMethod[CallerMethod[p].loop_to.i])

(***************************************************************************)
(* C11  The unroller raises the runaway-expansion error exactly when the   *)
(* simulation of the sequence takes more than 10000 iterations, visits to  *)
(* loop steps included; otherwise it returns the complete trace, in which  *)
(* every non-loop step stands as often as the simulation visits it.  The   *)
(* simulation visits a position once for every pass of the loops that      *)
(* enclose it, and a loop makes cycle_count + 1 passes.                    *)
(***************************************************************************)
\* a * b and a + b, cut off just above the ceiling
CutMul(a, b) == IF a * b > Ceiling THEN Ceiling + 1 ELSE a * b
CutAdd(a, b) == IF a + b > Ceiling THEN Ceiling + 1 ELSE a + b

RECURSIVE Passes(_, _)
Passes(method, Q) ==
  IF Q = {} THEN 1
  ELSE LET q == Min(Q) IN CutMul(method[q].cycle_count + 1, Passes(method, Q \ {q}))

\* visits of the simulation to position k
Visits(method, k) ==
  Passes(method, {q \in LoopPositions(method) : Encloses(method, q, k)})

RECURSIVE SumVisits(_, _)
SumVisits(method, K) ==
  IF K = {} THEN 0
  ELSE LET k == Min(K) IN CutAdd(Visits(method, k), SumVisits(method, K \ {k}))

\* iterations of the while loop on the whole sequence
StepsTaken(method) == SumVisits(method, Positions(method))

C11_CeilingExact ==
  [][(pc = "explode" /\ pc' = "returned") =>
       /\ (err' = "likely a loop definition error.") <=> (StepsTaken(Work.method) > Ceiling)
       /\ (err' = "") <=> (StepsTaken(Work.method) <= Ceiling)
       /\ err' = "" =>
            /\ Len(exploded_indices) = StepsTaken(Work.method)
            /\ \A k \in Positions(Work.method) \ LoopPositions(Work.method) :
                 Count(out', k - 1) = Visits(Work.method, k)
       /\ err' # "" => out' = << >>]_vars

\* the five nested loops of cycle_count 100 have been stopped at the ceiling
C11_Witness ==
  /\ op = "to_pybamm_experiment" /\ pc = "returned"
  /\ err = "likely a loop definition error."
  /\ Cardinality(LoopPositions(CallerMethod)) = 5
  /\ \A p \in LoopPositions(CallerMethod) : CallerMethod[p].cycle_count = 100

(***************************************************************************)
(* Vocabulary of the construction properties.  The constructor has run on  *)
(* the arguments in the slot "caller" and nothing has been called since.   *)
(***************************************************************************)
ConstructorRan == op = "construct" /\ pc \in {"returned", "rejected"}
Rejected == pc = "rejected" /\ err # ""
Accepted == pc = "returned" /\ err = ""

\* the names carried by more than one Tag step
RepeatedNames(method) ==
  {t \in {method[q].tag : q \in TagPositions(method)} :
     Cardinality({q \in TagPositions(method) : method[q].tag = t}) > 1}

\* the numeric loops that target their own position or a later one
ForwardLoops(method) ==
  {p \in LoopPositions(method) : ~method[p].loop_to.isstr /\ method[p].loop_to.i >= p}

(***************************************************************************)
(* C12  A protocol with a Loop whose numeric target t is at or after the   *)
(* loop's own 1-based position p (t >= p) is rejected at construction;     *)
(* the error is 'cannot be on or after the loop index', the check of       *)
(* duplicate tag names being the only one that runs before this one.       *)
(***************************************************************************)
C12_ForwardLoopRejected ==
  (ConstructorRan /\ ForwardLoops(CallerMethod) # {}) =>
    /\ Rejected
    /\ RepeatedNames(CallerMethod) = {} => err = "cannot be on or after the loop index"

\* a loop that targets its own position has been rejected
C12_Witness ==
  /\ ConstructorRan /\ Rejected
  /\ err = "cannot be on or after the loop index"
  /\ \E p \in LoopPositions(CallerMethod) :
       ~CallerMethod[p].loop_to.isstr /\ CallerMethod[p].loop_to.i = p

(***************************************************************************)
(* C13  A protocol with a Loop whose symbolic target names no Tag of the   *)
(* sequence, or names a Tag that stands after the loop, is rejected at     *)
(* construction; in an accepted protocol every symbolic target names a Tag *)
(* that stands before its loop.  The error is 'Tag ... is missing' or      *)
(* 'Loops must go backwards' according to the first symbolic loop, in      *)
(* sequence order, that breaks a rule, the checks of duplicate tag names   *)
(* and of the numeric loops having passed before.                          *)
(***************************************************************************)
SymbolicLoops(method) == {p \in LoopPositions(method) : method[p].loop_to.isstr}

TagsNamed(method, name) == {q \in TagPositions(method) : method[q].tag = name}

NamesNoTag(method, p) == TagsNamed(method, method[p].loop_to.s) = {}
NamesLaterTag(method, p) == \E q \in TagsNamed(method, method[p].loop_to.s) : q > p
NamesTagJustBefore(method, p) == p - 1 \in TagsNamed(method, method[p].loop_to.s)

\* the numeric loops the validator objects to
NumericFaults(method) ==
  {p \in LoopPositions(method) : ~method[p].loop_to.isstr /\ method[p].loop_to.i >= p - 1}

\* the symbolic loops the validator objects to
SymbolicFaults(method) ==
  {p \in SymbolicLoops(method) :
     NamesNoTag(method, p) \/ NamesLaterTag(method, p) \/ NamesTagJustBefore(method, p)}

\* the validator gets as far as the symbolic loops, and p is the first it
\* objects to
FirstSymbolicFault(method, p) ==
  /\ RepeatedNames(method) = {}
  /\ NumericFaults(method) = {}
  /\ SymbolicFaults(method) # {}
  /\ p = Min(SymbolicFaults(method))

C13_SymbolicTargetNeedsEarlierTag ==
  ConstructorRan =>
    /\ (\E p \in SymbolicLoops(CallerMethod) :
          NamesNoTag(CallerMethod, p) \/ NamesLaterTag(CallerMethod, p)) => Rejected
    /\ Accepted =>
         \A p \in SymbolicLoops(CallerMethod) :
           \E q \in TagsNamed(CallerMethod, CallerMethod[p].loop_to.s) : q < p
    /\ \A p \in SymbolicLoops(CallerMethod) :
         FirstSymbolicFault(CallerMethod, p) =>
           /\ NamesNoTag(CallerMethod, p) => err = "Tag is missing."
           /\ NamesLaterTag(CallerMethod, p) => err = "Loops must go backwards."

\* a loop naming a Tag that stands after it has been rejected
C13_Witness ==
  /\ ConstructorRan /\ Rejected
  /\ err = "Loops must go backwards."
  /\ \E p \in SymbolicLoops(CallerMethod) : NamesLaterTag(CallerMethod, p)

(***************************************************************************)
(* C14  A protocol in which a Loop with a symbolic target stands directly  *)
(* after the Tag it names is rejected at construction; the error is        *)
(* 'cannot start immediately after its tag' when this loop is the first    *)
(* thing the validator objects to.                                         *)
(***************************************************************************)
C14_LoopRightAfterItsTag ==
  ConstructorRan =>
    \A p \in SymbolicLoops(CallerMethod) :
      NamesTagJustBefore(CallerMethod, p) =>
        /\ Rejected
        /\ FirstSymbolicFault(CallerMethod, p) =>
             err = "Loop cannot start immediately after its tag."

\* a loop directly after its tag has been rejected
C14_Witness ==
  /\ ConstructorRan /\ Rejected
  /\ err = "Loop cannot start immediately after its tag."
  /\ \E p \in SymbolicLoops(CallerMethod) : NamesTagJustBefore(CallerMethod, p)

(***************************************************************************)
(* C15  A protocol in which two Tag steps carry the same name is rejected  *)
(* at construction with a 'Duplicate tags' error whose message lists every *)
(* name carried more than once, each once, in some order; a protocol whose *)
(* tag names are pairwise different gets no 'Duplicate tags' error.        *)
(***************************************************************************)
\* the messages that list exactly the names of S
DuplicateTagsErrors(S) == {"Duplicate tags: " \o names : names \in Joined(S)}

\* the other outcomes of the validator
OtherOutcomes ==
  {"", "cannot be on or after the loop index", "Tag is missing.", "Loops must go backwards.",
   "Loop cannot start immediately after its tag."}

C15_DuplicateTagsRejected ==
  ConstructorRan =>
    /\ RepeatedNames(CallerMethod) # {} =>
         Rejected /\ err \in DuplicateTagsErrors(RepeatedNames(CallerMethod))
    /\ RepeatedNames(CallerMethod) = {} => err \in OtherOutcomes

\* a protocol with two repeated names has been rejected
C15_Witness ==
  /\ ConstructorRan /\ Rejected
  /\ Cardinality(RepeatedNames(CallerMethod)) = 2
  /\ err \in DuplicateTagsErrors(RepeatedNames(CallerMethod))

(***************************************************************************)
(* Vocabulary: the loop intervals of a protocol after tag resolution.      *)
(***************************************************************************)
\* the sequence tag resolution makes of the method
Resolved(method) == tag_to_indices(method).method

\* two loop intervals of the resolved sequence partially overlap
Overlapping(method) ==
  \E a, b \in LoopIntervals(Resolved(method)) : PartialOverlap(a, b)

(***************************************************************************)
(* C16  As claimed: construction enforces the laminar-family invariant, so *)
(* no constructed protocol has loop intervals that partially overlap after *)
(* tag resolution.                                                         *)
(***************************************************************************)
C16_LaminarAtConstruction ==
  (ConstructorRan /\ Accepted) => ~Overlapping(CallerMethod)

(***************************************************************************)
(* C16  As amended: construction does not look at the loop intervals.  The *)
(* constructor accepts a protocol exactly when its tag names are pairwise  *)
(* different and no loop breaks a per-loop rule, whether or not its loops  *)
(* partially overlap; the laminar-family invariant is enforced by the      *)
(* nesting check that every exporter runs after tag resolution, so every   *)
(* export of a protocol with partially overlapping loops fails and returns *)
(* nothing.                                                                *)
(***************************************************************************)
C16_LaminarCheckedAtExport ==
  /\ ConstructorRan =>
       (Accepted <=> /\ RepeatedNames(CallerMethod) = {}
                     /\ NumericFaults(CallerMethod) = {}
                     /\ SymbolicFaults(CallerMethod) = {})
  /\ (op \in Exporters /\ pc = "returned" /\ Overlapping(CallerMethod)) =>
       (err # "" /\ out = << >>)

\* a protocol with partially overlapping loops was constructed, and an export
\* of it has failed in the nesting check
C16_Witness ==
  /\ op \in Exporters /\ pc = "returned"
  /\ Overlapping(CallerMethod)
  /\ _validate_loops_and_tags(CallerMethod) = ""
  /\ err = "Protocol has intersecting loops."

(***************************************************************************)
(* Vocabulary of the exporter properties.  An exporter has returned or     *)
(* raised, and the caller's object is what it was called on.               *)
(***************************************************************************)
IndexExporters == {"to_neware_xml", "to_biologic_mps", "to_tomato_mpg2"}

Exported(names) == op \in names /\ pc = "returned"

\* the sample the exporter works with: the caller's, the overrides applied
NameInUse ==
  IF args.sample_name # "" THEN args.sample_name ELSE heap["caller"].sample.name
CapacityInUse ==
  IF args.capacity_mAh \notin {None, 0} THEN args.capacity_mAh
  ELSE heap["caller"].sample.capacity_mAh

NameGiven == NameInUse \notin {"", "$NAME"}
CapacityGiven == CapacityInUse \notin {None, 0}

UsesCRate(method) ==
  \E k \in Positions(method) :
    method[k].rate_C \notin {None, 0} \/ method[k].until_rate_C \notin {None, 0}

NameMissing == "a sample name must be provided in this function."
CapacityMissing == "Sample capacity must be set if using C-rate steps."
Intersecting == "Protocol has intersecting loops."

\* the executable steps the exporter has no case for
WithoutCase(name, method) ==
  {k \in Positions(method) :
     ~IsTag(method[k]) /\ ~IsLoop(method[k]) /\ method[k].step \notin Rendered(name)}

\* the errors raised before an exporter renders a step, and those of the tree
\* builder and of the unroller
NotOfRendering ==
  {NameMissing, CapacityMissing, Intersecting, "StopIteration", "IndexError",
   "likely a loop definition error."}

(***************************************************************************)
(* C17  As claimed: an exporter that gets as far as rendering a sequence   *)
(* with a step it has no case for raises NotImplementedError with the      *)
(* message '<exporter>() does not support step type: <step>'.              *)
(***************************************************************************)
C17_UnsupportedIsNotImplemented ==
  (/\ Exported(Exporters)
   /\ WithoutCase(op, CallerMethod) # {}
   /\ err \notin NotOfRendering) =>
    \E k \in WithoutCase(op, CallerMethod) :
      err = "NotImplementedError: " \o op \o "() does not support step type: "
              \o CallerMethod[k].step

(***************************************************************************)
(* C18  to_neware_xml, to_biologic_mps and to_tomato_mpg2 raise 'Sample    *)
(* capacity must be set if using C-rate steps.' exactly when, with the     *)
(* overrides applied, the capacity is unset or zero and some step has a    *)
(* non-zero rate_C or until_rate_C, the sample-name check, which comes     *)
(* first, having passed.                                                   *)
(***************************************************************************)
C18_CapacityNeededForCRate ==
  Exported(IndexExporters) =>
    ((err = CapacityMissing)
       <=> (NameGiven /\ ~CapacityGiven /\ UsesCRate(CallerMethod)))

\* the check has raised on a capacity of zero and a step that has an
\* until_rate_C only, the name coming from the override
C18_Witness ==
  /\ Exported(IndexExporters)
  /\ err = CapacityMissing
  /\ args.sample_name # ""
  /\ heap["caller"].sample.capacity_mAh = 0
  /\ \A k \in Positions(CallerMethod) : CallerMethod[k].rate_C = 0

(***************************************************************************)
(* C19  As claimed: a Tag step with an empty or whitespace-only name       *)
(* cannot be constructed, so no constructed protocol holds one.            *)
(***************************************************************************)
C19_NoBlankTag ==
  (ConstructorRan /\ Accepted) =>
    \A p \in TagPositions(CallerMethod) : Strip(CallerMethod[p].tag) # ""

(***************************************************************************)
(* C20  Every exporter runs tag resolution and the nesting check before it *)
(* renders a step: an export of a protocol whose loops partially overlap   *)
(* raises, returns nothing and writes no file, also when a file path is    *)
(* given and when the sequence has a step the exporter cannot render.  The *)
(* error is 'Protocol has intersecting loops.' whenever the checks of      *)
(* sample name and capacity, which three exporters make first, have        *)
(* passed.                                                                 *)
(***************************************************************************)
SampleChecksPass ==
  op \in IndexExporters => (NameGiven /\ (CapacityGiven \/ ~UsesCRate(CallerMethod)))

C20_OverlapStopsExport ==
  (Exported(Exporters) /\ Overlapping(CallerMethod)) =>
    /\ err # ""
    /\ out = << >>
    /\ ~written
    /\ (err = Intersecting) <=> SampleChecksPass

\* an export to a file of a protocol with partially overlapping loops and a
\* step the exporter has no case for has failed in the nesting check
C20_Witness ==
  /\ Exported(Exporters) /\ Overlapping(CallerMethod)
  /\ err = Intersecting
  /\ args.save_path /\ ~written
  /\ WithoutCase(op, CallerMethod) # {}

(***************************************************************************)
(* C21  A jump back from the loop at i to its target s adds one to that    *)
(* loop's counter, sets to 0 the counter of every other loop at s..i-1 and *)
(* leaves every other counter as it was.  Hence every loop is met with     *)
(* counter 0 on each pass of the loops around it, and when the simulation  *)
(* ends a loop step has been visited cycle_count + 1 times for every pass  *)
(* of the loops that enclose it, as on the first pass.                     *)
(***************************************************************************)
JumpsBack == pc = "explode" /\ pc' = "explode" /\ GoesBack(loops, i)

C21_JumpBackResetsInnerLoops ==
  [][/\ JumpsBack =>
          /\ i' = loops[i].goto
          /\ DOMAIN loops' = DOMAIN loops
          /\ \A j \in DOMAIN loops :
               loops'[j].n_done =
                 IF j = i THEN loops[i].n_done + 1
                 ELSE IF loops[i].goto <= j /\ j < i THEN 0
                 ELSE loops[j].n_done
     /\ (pc = "explode" /\ pc' = "returned" /\ err' = "") =>
          \A q \in LoopPositions(Work.method) :
            Count(exploded_indices, q - 1) = Visits(Work.method, q)]_vars

\* the simulation stands at the target of an outer loop it has jumped back
\* from, and the loop inside it, which had gone back before, has its counter at 0
C21_Witness ==
  /\ pc = "explode"
  /\ Cardinality(DOMAIN loops) = 2
  /\ \E q, j \in DOMAIN loops :
       /\ loops[q].goto <= j /\ j < q
       /\ i = loops[q].goto
       /\ loops[q].n_done >= 1
       /\ loops[j].n >= 1 /\ loops[j].n_done = 0
       /\ Count(exploded_indices, j) >= 2

(***************************************************************************)
(* C22  A protocol with a Loop whose numeric target is the position just   *)
(* before the loop (t = p - 1, p the loop's 1-based position) is rejected  *)
(* at construction with 'cannot be on or after the loop index', as a loop  *)
(* onto itself or forwards is; only the check of duplicate tag names runs  *)
(* before this one.                                                        *)
(***************************************************************************)
\* the numeric loops that go back one position only
OneBackLoops(method) ==
  {p \in LoopPositions(method) : ~method[p].loop_to.isstr /\ method[p].loop_to.i = p - 1}

C22_OneStepBackRejected ==
  (ConstructorRan /\ OneBackLoops(CallerMethod) # {}) =>
    /\ Rejected
    /\ RepeatedNames(CallerMethod) = {} => err = "cannot be on or after the loop index"

\* a protocol whose only fault is a loop to the step just before it has been
\* rejected
C22_Witness ==
  /\ ConstructorRan /\ Rejected
  /\ err = "cannot be on or after the loop index"
  /\ OneBackLoops(CallerMethod) # {}
  /\ ForwardLoops(CallerMethod) = {}
  /\ RepeatedNames(CallerMethod) = {}

(***************************************************************************)
(* C23  As claimed: when tag_to_indices raises because a loop names a tag  *)
(* that no Tag step carries, the protocol object it was called on has the  *)
(* steps and the loop targets it had before the call.                      *)
(***************************************************************************)
C23_FailedResolutionLeavesProtocol ==
  [][(op' = "tag_to_indices" /\ err' = "does not have a corresponding tag step.") =>
       heap'["caller"].method = CallerMethod]_vars

(***************************************************************************)
(* C24  On every resolved sequence (no Tag, every loop target an integer   *)
(* from 1 to the loop's own position) check_for_intersecting_loops, which  *)
(* leaves interval i at the first later interval of the sorted list that   *)
(* starts after i ends, gives the verdict of a test of every pair of loop  *)
(* intervals for partial overlap.                                          *)
(***************************************************************************)
\* a sequence as the resolver leaves it
ResolvedSequence(method) ==
  /\ ResolvedForm(method)
  /\ \A p \in LoopPositions(method) : 1 <= method[p].loop_to.i /\ method[p].loop_to.i <= p

\* the verdict of comparing every pair of intervals
EveryPairVerdict(method) ==
  IF \E a, b \in LoopIntervals(method) : PartialOverlap(a, b)
    THEN "Protocol has intersecting loops."
    ELSE ""

\* some interval starts after another has ended: the scan stops early
StopsEarly(method) == \E a, b \in LoopIntervals(method) : b[1] > a[2]

C24_EarlyStopSameVerdict ==
  (op = "check_for_intersecting_loops" /\ pc = "returned" /\ ResolvedSequence(CallerMethod)) =>
    err = EveryPairVerdict(CallerMethod)

\* the check has passed a sequence of two loops on which it stopped early
C24_Witness ==
  /\ op = "check_for_intersecting_loops" /\ pc = "returned"
  /\ ResolvedSequence(CallerMethod)
  /\ StopsEarly(CallerMethod)
  /\ Cardinality(LoopIntervals(CallerMethod)) >= 2
  /\ err = ""

(***************************************************************************)
(* C25  to_neware_xml, to_biologic_mps and to_tomato_mpg2 check the sample *)
(* name first, then the capacity, then resolve the tags and check the      *)
(* nesting.  Without a sample name the missing-name error is raised,       *)
(* whatever the capacity and the loops are; with a name, without the       *)
(* capacity that the C-rate steps of the protocol need, the                *)
(* missing-capacity error is raised, also when the loops intersect; the    *)
(* intersecting-loops error is raised only when both checks have passed.   *)
(***************************************************************************)
C25_PreflightOrder ==
  Exported(IndexExporters) =>
    /\ ~NameGiven => err = NameMissing
    /\ (NameGiven /\ ~CapacityGiven /\ UsesCRate(CallerMethod)) => err = CapacityMissing
    /\ err = Intersecting =>
         /\ NameGiven
         /\ CapacityGiven \/ ~UsesCRate(CallerMethod)
         /\ Overlapping(CallerMethod)

\* a protocol with C-rate steps, no capacity and intersecting loops has been
\* exported under a name: the capacity error is the one raised
C25_Witness ==
  /\ Exported(IndexExporters)
  /\ NameGiven /\ ~CapacityGiven /\ UsesCRate(CallerMethod)
  /\ Overlapping(CallerMethod)
  /\ err = CapacityMissing

(***************************************************************************)
(* C26  Without the test against the ceiling, the simulation of a resolved *)
(* sequence whose loops all target a position at or before their own       *)
(* reaches the end of the sequence after finitely many iterations.  Every  *)
(* iteration lowers a rank that cannot fall for ever: the passes the loops *)
(* still have to make, the loop at the highest position counting most,     *)
(* then the distance from the program counter to the end.                  *)
(***************************************************************************)
\* passes the loop at q still has to make
Remaining(d, q) == d[q].n - d[q].n_done

\* the rank of (d2, i2) is below that of (d1, i1) in the lexicographic order
RankBelow(d2, i2, d1, i1) ==
  \/ \E q \in DOMAIN d1 :
       /\ Remaining(d2, q) < Remaining(d1, q)
       /\ \A r \in DOMAIN d1 : r > q => Remaining(d2, r) = Remaining(d1, r)
  \/ /\ \A r \in DOMAIN d1 : Remaining(d2, r) = Remaining(d1, r)
     /\ i2 > i1

RankInRange(d, k, end_idx) ==
  /\ \A q \in DOMAIN d : Remaining(d, q) >= 0
  /\ k <= end_idx

AtTheEnd == pc = "explode" /\ ~(i < Len(Work.method))

C26_TerminatesWithoutCeiling ==
  /\ [][(pc = "explode" /\ pc' = "explode") =>
          /\ RankBelow(loops', i', loops, i)
          /\ RankInRange(loops', i', Len(Work.method))]_vars
  /\ (pc = "explode") ~> AtTheEnd
  /\ (pc = "explode") ~> (pc = "returned" /\ err = "")

\* the simulation of a sequence with two loops that are not nested in each
\* other has reached the end, both loops having made two passes back
C26_Witness ==
  /\ AtTheEnd
  /\ \E a, b \in LoopIntervals(Work.method) : PartialOverlap(a, b)
  /\ \A q \in DOMAIN loops : loops[q].n_done = 2
  /\ Cardinality(DOMAIN loops) >= 2

(***************************************************************************)
(* C27  As claimed: the Loop Tree that _group_iterative_tasks builds for a *)
(* resolved sequence, every Repeat body written out count times in order,  *)
(* is the trace that _explode_loops returns for the same sequence.         *)
(***************************************************************************)
RECURSIVE Times(_, _)
\* seq, n times over
Times(seq, n) == IF n = 0 THEN << >> ELSE seq \o Times(seq, n - 1)

RECURSIVE Expand(_)
Expand(tasks) ==
  IF tasks = << >> THEN << >>
  ELSE (IF Head(tasks).kind = "repeat" THEN Times(Expand(Head(tasks).body), Head(tasks).count)
        ELSE IF Head(tasks).kind = "leaf" THEN <<Head(tasks).step>>
        ELSE << >>)
       \o Expand(Tail(tasks))

\* the Loop Tree of the resolved sequence of a method
LoopTree(method) == _group_iterative_tasks(StepNumbers(Resolved(method)), Resolved(method))

C27_TreeExpandsToTrace ==
  (Exported({"to_pybamm_experiment"}) /\ err = "") => out = Expand(LoopTree(CallerMethod))

(***************************************************************************)
(* C28  As claimed: the resolved sequence of a protocol that construction  *)
(* accepted is itself accepted by _validate_loops_and_tags.                *)
(***************************************************************************)
C28_ValidationClosedUnderResolution ==
  (ConstructorRan /\ Accepted) => _validate_loops_and_tags(Resolved(CallerMethod)) = ""

(***************************************************************************)
(* C29  While _explode_loops simulates the resolved sequence of a          *)
(* protocol, the program counter i is in 0..len(sequence) and the counter  *)
(* n_done of every loop is in 0..cycle_count of that loop.                 *)
(***************************************************************************)
C29_CountersInRange ==
  pc = "explode" =>
    /\ i \in 0..Len(Work.method)
    /\ DOMAIN loops = {p - 1 : p \in LoopPositions(Work.method)}
    /\ \A q \in DOMAIN loops : loops[q].n_done \in 0..Work.method[q + 1].cycle_count

\* the simulation stands at the end of a sequence with two loops, each of
\* which has made all of its two or more passes
C29_Witness ==
  /\ pc = "explode"
  /\ i = Len(Work.method)
  /\ Cardinality(DOMAIN loops) = 2
  /\ \A q \in DOMAIN loops :
       loops[q].n_done = Work.method[q + 1].cycle_count /\ loops[q].n_done >= 2

(***************************************************************************)
(* C30  As claimed: when to_battinfo_jsonld has resolved an accepted       *)
(* protocol and the nesting check has passed, the Loop Tree builder finds  *)
(* the start of every loop, the tree has at least one node, no Repeat has  *)
(* an empty body, and the build of the document raises neither a lookup    *)
(* nor an index error.                                                     *)
(***************************************************************************)
RECURSIVE HasEmptyRepeat(_)
HasEmptyRepeat(tasks) ==
  \E k \in 1..Len(tasks) :
    tasks[k].kind = "repeat" /\ (tasks[k].body = << >> \/ HasEmptyRepeat(tasks[k].body))

C30_TreeBuildNeverFails ==
  (Exported({"to_battinfo_jsonld"}) /\ err # Intersecting) =>
    /\ ~TreeRaises(LoopTree(CallerMethod))
    /\ LoopTree(CallerMethod) # << >>
    /\ ~HasEmptyRepeat(LoopTree(CallerMethod))
    /\ err \notin {"StopIteration", "IndexError"}

====
